---- MODULE Spec2Model ----
(***************************************************************************)
(* Model of missions/mission4/py/main.py: a FastAPI service with a health  *)
(* endpoint, a paginated product listing, a similarity search that reads   *)
(* the result sets of a stored-procedure batch, and two chat endpoints     *)
(* that forward the search text to a hosted chat model.                    *)
(*                                                                         *)
(* The database (product table, stored procedure), the chat model, their   *)
(* reachability and the requests the clients send are the environment:     *)
(* they are fixed by Init and never changed by the service.  Every request runs its handler as a      *)
(* sequence of steps, one per blocking call of the code, so that requests  *)
(* interleave at exactly the points where the handlers can be suspended.   *)
(***************************************************************************)
EXTENDS Integers, Sequences, FiniteSets, TLC

VARIABLES table, proc, llm, dbUp, modelUp, clients, conns, req

vars == <<table, proc, llm, dbUp, modelUp, clients, conns, req>>

(***************************************************************************)
(* Bounds of the model.                                                    *)
(***************************************************************************)
NumRequests == 2
MaxRows == 3
MaxPage == 2
MaxPageSize == 2
MaxSets == 2
MaxSetRows == 2
MaxReplyLen == 3

Requests == 1..NumRequests
Queries == {"q1", "q2"}
Products == {"A", "B"}
Kinds == {"health", "get_products", "search_products", "chat", "chat_structured"}
ChatKinds == {"chat", "chat_structured"}
SimilarKinds == {"search_products"} \cup ChatKinds

Min(a, b) == IF a < b THEN a ELSE b

RECURSIVE SeqsUpTo(_, _)
SeqsUpTo(S, n) ==
    IF n = 0 THEN {<<>>}
    ELSE LET shorter == SeqsUpTo(S, n - 1)
         IN  shorter \cup {Append(s, x) : s \in {t \in shorter : Len(t) = n - 1}, x \in S}

RECURSIVE Flatten(_)
Flatten(ss) == IF ss = <<>> THEN <<>> ELSE Head(ss) \o Flatten(Tail(ss))

(***************************************************************************)
(* The product table: dbo.walmart_ecommerce_product_details, ORDER BY id.  *)
(***************************************************************************)
ProductColumns ==
    <<"id", "item_id", "product_name", "product_category", "price_retail", "price_current">>

ProductRow(i) == <<i, 100 + i, "name", "category", 20, 10>>

Table(k) == [i \in 1..k |-> ProductRow(i)]

(***************************************************************************)
(* The stored procedure dbo.get_similar_items: for each input text it      *)
(* either raises, or emits result sets and sets its @error OUTPUT value.   *)
(* A result set with no column descriptor (columns = <<>>) has no rows.    *)
(***************************************************************************)
SimilarColumns == <<"product_name">>
NoDescSet == [columns |-> <<>>, rows |-> <<>>]
DescSet(names) == [columns |-> SimilarColumns, rows |-> [i \in 1..Len(names) |-> <<names[i]>>]]
ResultSets == {NoDescSet} \cup {DescSet(ns) : ns \in SeqsUpTo(Products, MaxSetRows)}

ProcRaises == [raises |-> TRUE, sets |-> <<>>, error |-> "None"]
ProcReturns(sets, err) == [raises |-> FALSE, sets |-> sets, error |-> err]
ProcOutcomes ==
    {ProcRaises} \cup {ProcReturns(ss, "None") : ss \in SeqsUpTo(ResultSets, MaxSets)}
                 \cup {ProcReturns(<<>>, "E")}

\* The procedure matched no product: none of its result sets has a row.
NoMatch(o) == ~o.raises /\ \A i \in 1..Len(o.sets) : o.sets[i].rows = <<>>

(***************************************************************************)
(* The chat model's completions, as token sequences: "n" a number literal, *)
(* "[" and "]" brackets, " " whitespace, "x" a character outside JSON.     *)
(***************************************************************************)
Tokens == {"[", "]", "n", " ", "x"}
Replies == SeqsUpTo(Tokens, MaxReplyLen)

(***************************************************************************)
(* get_products: offset = (page - 1) * page_size, and the rows the         *)
(* database returns for ORDER BY id OFFSET offset ROWS FETCH NEXT          *)
(* page_size ROWS ONLY.  SQL Server rejects a negative OFFSET and a FETCH  *)
(* count below 1.                                                          *)
(***************************************************************************)
OffsetByPage(page, page_size) == page * page_size

Offset(page, page_size) == (page - 1) * page_size

SelectRejected(offset, page_size) == offset < 0 \/ page_size < 1

SelectPage(t, offset, page_size) == SubSeq(t, offset + 1, Min(offset + page_size, Len(t)))

(***************************************************************************)
(* dict(zip(columns, row)): a mapping from column name to value; zip stops *)
(* at the shorter sequence and a repeated name keeps its last value.       *)
(***************************************************************************)
Zip(columns, row) ==
    LET n == Min(Len(columns), Len(row))
    IN  [c \in {columns[i] : i \in 1..n} |->
            row[CHOOSE i \in 1..n : columns[i] = c /\ \A j \in (i + 1)..n : columns[j] # c]]

Dicts(columns, rows) == [i \in 1..Len(rows) |-> Zip(columns, rows[i])]

(***************************************************************************)
(* The result sets of the batch both similarity callers execute:           *)
(*   SET NOCOUNT ON; DECLARE @out; EXEC get_similar_items ...;             *)
(*   SELECT @out AS error;                                                 *)
(* the procedure's result sets, then the one-row set of the last SELECT.   *)
(***************************************************************************)
ErrorSet(err) == [columns |-> <<"error">>, rows |-> << <<err>> >>]

SimilarBatch(o) == o.sets \o <<ErrorSet(o.error)>>

ListBatch(t, page, page_size) ==
    <<[columns |-> ProductColumns, rows |-> SelectPage(t, Offset(page, page_size), page_size)]>>

(***************************************************************************)
(* str(results) of find_products: the list's text, "[" row ", " row "]",   *)
(* every row printed as a tuple.  str([]) is "[]".                         *)
(***************************************************************************)
RECURSIVE Join(_, _)
Join(parts, sep) ==
    IF parts = <<>> THEN <<>>
    ELSE IF Len(parts) = 1 THEN Head(parts)
    ELSE Head(parts) \o sep \o Join(Tail(parts), sep)

RowRepr(row) ==
    <<"(">> \o Join([i \in 1..Len(row) |-> <<row[i]>>], <<", ">>)
            \o (IF Len(row) = 1 THEN <<",">> ELSE <<>>) \o <<")">>

Str(rows) == <<"[">> \o Join([i \in 1..Len(rows) |-> RowRepr(rows[i])], <<", ">>) \o <<"]">>

EmptyListText == <<"[", "]">>

\* bool(product_results and product_results != "[]")
ProductsFound(text) == text # <<>> /\ text # EmptyListText

(***************************************************************************)
(* json.loads(response.content).  Over the tokens of Replies a JSON text   *)
(* is: whitespace, a value, whitespace; a value is "n" or an array of no   *)
(* or one value.  The decoder recurses once per nesting level and the      *)
(* interpreter raises RecursionError, which is not a JSONDecodeError, when *)
(* the nesting exceeds its recursion limit (1000 frames by default, scaled *)
(* here to RecursionLimit).  The parsed value is written in canonical      *)
(* form: the text without its whitespace.                                  *)
(***************************************************************************)
RecursionLimit == 2

RECURSIVE SkipWs(_, _)
SkipWs(t, i) == IF i <= Len(t) /\ t[i] = " " THEN SkipWs(t, i + 1) ELSE i

Scanned(i) == [err |-> "none", next |-> i]
ScanError(e) == [err |-> e, next |-> 0]

RECURSIVE ScanValue(_, _, _)
ScanValue(t, i, depth) ==
    IF i > Len(t) THEN ScanError("JSONDecodeError")
    ELSE IF t[i] = "n" THEN Scanned(i + 1)
    ELSE IF t[i] = "[" THEN
        IF depth + 1 > RecursionLimit THEN ScanError("RecursionError")
        ELSE LET j == SkipWs(t, i + 1)
             IN  IF j <= Len(t) /\ t[j] = "]" THEN Scanned(j + 1)
                 ELSE LET inner == ScanValue(t, j, depth + 1)
                          k == SkipWs(t, inner.next)
                      IN  IF inner.err # "none" THEN inner
                          ELSE IF k <= Len(t) /\ t[k] = "]" THEN Scanned(k + 1)
                          ELSE ScanError("JSONDecodeError")
    ELSE ScanError("JSONDecodeError")

NotWs(tok) == tok # " "

JsonLoads(t) ==
    LET v == ScanValue(t, SkipWs(t, 1), 0)
    IN  IF v.err # "none" THEN [err |-> v.err, value |-> <<>>]
        ELSE IF SkipWs(t, v.next) <= Len(t) THEN [err |-> "JSONDecodeError", value |-> <<>>]
        ELSE [err |-> "none", value |-> SelectSeq(t, NotWs)]

(***************************************************************************)
(* A request: the handler's position and its local variables.              *)
(*   connection       the connection object it holds (0: none),            *)
(*   cursor           the cursor's result sets and current position,       *)
(*   results          the list the fetch code builds,                      *)
(*   product_results  the text find_products returned,                     *)
(*   messages         what was passed to chat_model.invoke,                *)
(*   response         the model's completion,                              *)
(*   body             what the handler returned.                           *)
(* connects, executes, invokes and visited record the calls it has made.   *)
(***************************************************************************)
NoCursor == [sets |-> <<>>, pos |-> 0]
NoResponse == [received |-> FALSE, content |-> <<>>]
NoBody == [empty |-> TRUE]

IdleRequest ==
    [pc |-> "idle", kind |-> "none", page |-> 0, page_size |-> 0, text |-> "",
     connection |-> 0, cursor |-> NoCursor, results |-> <<>>, product_results |-> <<>>,
     messages |-> <<>>, response |-> NoResponse, outcome |-> "none", error |-> "none",
     body |-> NoBody, connects |-> 0, executes |-> 0, invokes |-> 0, visited |-> <<>>]

\* An exception leaves the handler: nothing after the raising call runs.
Raise(r, e) == [r EXCEPT !.pc = "done", !.outcome = "error", !.error = e]

Return(r, b) == [r EXCEPT !.pc = "done", !.outcome = "ok", !.body = b]

Environment == <<table, proc, llm, dbUp, modelUp, clients>>

(***************************************************************************)
(* The HTTP layer hands a request to its handler.  page and page_size are  *)
(* integers with no bound check; query and message are free text.          *)
(* Requests are numbered in their order of arrival.                        *)
(***************************************************************************)
Health == [kind |-> "health", page |-> 0, page_size |-> 0, text |-> ""]
List(page, page_size) ==
    [kind |-> "get_products", page |-> page, page_size |-> page_size, text |-> ""]
Similar(kind, text) == [kind |-> kind, page |-> 0, page_size |-> 0, text |-> text]

Inputs ==
    {Health} \cup {List(page, page_size) : page \in 0..MaxPage, page_size \in 1..MaxPageSize}
             \cup {Similar(kind, text) : kind \in SimilarKinds, text \in Queries}

receive(r) ==
    /\ req[r].pc = "idle"
    /\ \A o \in 1..(r - 1) : req[o].pc # "idle"
    /\ \E in \in clients :
         req' = [req EXCEPT ![r] =
                    [IdleRequest EXCEPT !.kind = in.kind, !.page = in.page,
                                        !.page_size = in.page_size, !.text = in.text,
                                        !.pc = IF in.kind = "health" THEN "health_check"
                                               ELSE "get_connection"]]
    /\ UNCHANGED <<Environment, conns>>

health_check_probing(r) ==
    /\ req[r].pc = "health_check"
    /\ req' = [req EXCEPT ![r] =
                  IF dbUp /\ modelUp
                  THEN Return(@, [status |-> "healthy", service |-> "SQL AI API"])
                  ELSE Raise(@, "ConnectionError")]
    /\ UNCHANGED <<Environment, conns>>

health_check(r) ==
    /\ req[r].pc = "health_check"
    /\ req' = [req EXCEPT ![r] = Return(@, [status |-> "healthy", service |-> "SQL AI API"])]
    /\ UNCHANGED <<Environment, conns>>

(***************************************************************************)
(* get_connection() and connection.cursor(): mssql_python.connect makes a  *)
(* new connection object on every call, or raises when the server cannot   *)
(* be reached.                                                             *)
(***************************************************************************)
NewConnection(r) == [owner |-> r, open |-> TRUE, closes |-> 0, users |-> {r}]

get_connection_shared(r) ==
    /\ req[r].pc = "get_connection"
    /\ IF ~dbUp
       THEN /\ req' = [req EXCEPT ![r] = Raise([@ EXCEPT !.connects = @ + 1], "ConnectionError")]
            /\ UNCHANGED conns
       ELSE IF \E c \in 1..Len(conns) : conns[c].open
       THEN LET c == CHOOSE c \in 1..Len(conns) : conns[c].open
            IN  /\ conns' = [conns EXCEPT ![c].users = @ \cup {r}]
                /\ req' = [req EXCEPT ![r].pc = "execute", ![r].connects = @ + 1,
                                      ![r].connection = c]
       ELSE /\ conns' = Append(conns, NewConnection(r))
            /\ req' = [req EXCEPT ![r].pc = "execute", ![r].connects = @ + 1,
                                  ![r].connection = Len(conns) + 1]
    /\ UNCHANGED Environment

get_connection(r) ==
    /\ req[r].pc = "get_connection"
    /\ IF dbUp
       THEN /\ conns' = Append(conns, NewConnection(r))
            /\ req' = [req EXCEPT ![r].pc = "execute", ![r].connects = @ + 1,
                                  ![r].connection = Len(conns) + 1]
       ELSE /\ req' = [req EXCEPT ![r] = Raise([@ EXCEPT !.connects = @ + 1], "ConnectionError")]
            /\ UNCHANGED conns
    /\ UNCHANGED Environment

\* The request r uses its connection for one more call.
Use(r) == [conns EXCEPT ![req[r].connection].users = @ \cup {r}]

(***************************************************************************)
(* cursor.execute: the paginated SELECT of get_products, or the batch of   *)
(* search_products and find_products.                                      *)
(***************************************************************************)
cursor_execute(r) ==
    /\ req[r].pc = "execute"
    /\ LET q == [req[r] EXCEPT !.executes = @ + 1]
       IN  req' = [req EXCEPT ![r] =
             IF q.kind = "get_products"
             THEN IF SelectRejected(Offset(q.page, q.page_size), q.page_size)
                  THEN Raise(q, "QueryError")
                  ELSE [q EXCEPT !.pc = "fetch",
                                 !.cursor = [sets |-> ListBatch(table, q.page, q.page_size), pos |-> 1]]
             ELSE IF proc[q.text].raises
                  THEN Raise(q, "QueryError")
                  ELSE [q EXCEPT !.pc = "fetch",
                                 !.cursor = [sets |-> SimilarBatch(proc[q.text]), pos |-> 1]]]
    /\ conns' = Use(r)
    /\ UNCHANGED Environment

(***************************************************************************)
(* cursor.fetchall() on the current result set and what the handler does   *)
(* with the rows: get_products zips them with the description and goes on  *)
(* to close; search_products extends results with mappings when the set    *)
(* has a description; find_products extends results with the raw rows.     *)
(***************************************************************************)
Fetched(q) ==
    LET set == q.cursor.sets[q.cursor.pos]
        v == [q EXCEPT !.visited = Append(@, q.cursor.pos)]
    IN  IF q.kind = "get_products"
        THEN [v EXCEPT !.pc = "close", !.results = Dicts(set.columns, set.rows)]
        ELSE IF q.kind = "search_products"
        THEN [v EXCEPT !.pc = "nextset",
                       !.results = IF set.columns # <<>> THEN @ \o Dicts(set.columns, set.rows) ELSE @]
        ELSE [v EXCEPT !.pc = "nextset", !.results = @ \o set.rows]

cursor_fetchall(r) ==
    /\ req[r].pc = "fetch"
    /\ req' = [req EXCEPT ![r] = Fetched(@)]
    /\ conns' = Use(r)
    /\ UNCHANGED Environment

\* if not cursor.nextset(): break
cursor_nextset_first_only(r) ==
    /\ req[r].pc = "nextset"
    /\ req' = [req EXCEPT ![r].pc = "close"]
    /\ conns' = Use(r)
    /\ UNCHANGED Environment

cursor_nextset(r) ==
    /\ req[r].pc = "nextset"
    /\ req' = [req EXCEPT ![r] =
                  IF @.cursor.pos < Len(@.cursor.sets)
                  THEN [@ EXCEPT !.pc = "fetch", !.cursor.pos = @ + 1]
                  ELSE [@ EXCEPT !.pc = "close"]]
    /\ conns' = Use(r)
    /\ UNCHANGED Environment

(***************************************************************************)
(* execute, fetchall or nextset raises (a statement error, a dropped link):*)
(* the exception leaves the handler at once; no handler has a try/finally  *)
(* or a context manager, so cursor.close() and connection.close() are      *)
(* skipped.                                                                *)
(***************************************************************************)
db_error_retried(r) ==
    /\ req[r].pc \in {"execute", "fetch", "nextset"}
    /\ req' = [req EXCEPT ![r] =
                  IF @.connects < 2
                  THEN [@ EXCEPT !.pc = "get_connection", !.cursor = NoCursor,
                                 !.results = <<>>, !.visited = <<>>]
                  ELSE Raise(@, "QueryError")]
    /\ conns' = Use(r)
    /\ UNCHANGED Environment

db_error(r) ==
    /\ req[r].pc \in {"execute", "fetch", "nextset"}
    /\ req' = [req EXCEPT ![r] = Raise(@, "QueryError")]
    /\ conns' = Use(r)
    /\ UNCHANGED Environment

(***************************************************************************)
(* cursor.close(); connection.close(); and the handler's return:           *)
(* get_products and search_products return their body; find_products      *)
(* returns str(results) to chat or chat_structured, which goes on to the   *)
(* model call.                                                             *)
(***************************************************************************)
Closed(r) ==
    [conns EXCEPT ![req[r].connection] =
        [@ EXCEPT !.open = FALSE, !.closes = @ + 1, !.users = @ \cup {r}]]

AfterClose(q) ==
    IF q.kind = "get_products"
    THEN Return(q, [page |-> q.page, page_size |-> q.page_size, products |-> q.results])
    ELSE IF q.kind = "search_products"
    THEN Return(q, [query |-> q.text, results |-> q.results])
    ELSE [q EXCEPT !.pc = "invoke", !.product_results = Str(q.results)]

close_and_return_unclosed(r) ==
    /\ req[r].pc = "close"
    /\ req' = [req EXCEPT ![r] = AfterClose(@)]
    /\ conns' = IF req[r].kind \in ChatKinds THEN Use(r) ELSE Closed(r)
    /\ UNCHANGED Environment

close_and_return(r) ==
    /\ req[r].pc = "close"
    /\ req' = [req EXCEPT ![r] = AfterClose(@)]
    /\ conns' = Closed(r)
    /\ UNCHANGED Environment

(***************************************************************************)
(* The system prompt (an f-string around product_results) and the message  *)
(* list [SystemMessage, HumanMessage] passed to chat_model.invoke.         *)
(***************************************************************************)
SystemPrompt(kind, product_results) ==
    IF kind = "chat"
    THEN <<"You are a helpful product assistant. ... Available Products:">>
             \o product_results
             \o <<"If no relevant products are found, politely inform the user.">>
    ELSE <<"You are a product recommendation assistant. ... Available Products:">>
             \o product_results

Messages(q) ==
    <<[role |-> "system", content |-> SystemPrompt(q.kind, q.product_results)],
      [role |-> "user", content |-> <<q.text>>]>>

chat_model_invoke(r) ==
    /\ req[r].pc = "invoke"
    /\ req' = [req EXCEPT ![r].pc = "await", ![r].invokes = @ + 1,
                          ![r].messages = Messages(req[r])]
    /\ UNCHANGED <<Environment, conns>>

(***************************************************************************)
(* chat_model.invoke returns or raises, and the handler finishes: chat     *)
(* builds its ChatResponse; chat_structured returns json.loads of the      *)
(* content, or {"raw_response": content} on json.JSONDecodeError, the only *)
(* exception it catches.                                                   *)
(***************************************************************************)
ChatResponse(q, content) ==
    [user_message |-> q.text, assistant_response |-> content,
     products_found |-> ProductsFound(q.product_results)]

Structured(q, content) ==
    LET parsed == JsonLoads(content)
    IN  IF parsed.err = "none" THEN Return(q, [json |-> parsed.value])
        ELSE IF parsed.err = "JSONDecodeError" THEN Return(q, [raw_response |-> content])
        ELSE Raise(q, parsed.err)

chat_model_reply(r) ==
    /\ req[r].pc = "await"
    /\ IF ~modelUp
       THEN req' = [req EXCEPT ![r] = Raise(@, "ChatModelError")]
       ELSE \E content \in llm :
              LET q == [req[r] EXCEPT !.response = [received |-> TRUE, content |-> content]]
              IN  req' = [req EXCEPT ![r] =
                            IF q.kind = "chat" THEN Return(q, ChatResponse(q, content))
                            ELSE Structured(q, content)]
    /\ UNCHANGED <<Environment, conns>>

(***************************************************************************)
(* Specifications.  Spec: NumRequests requests handled concurrently, for   *)
(* a fixed load of client requests and a small choice of database and      *)
(* model behaviours.  SpecSearch and SpecChat: one request, over every     *)
(* input, and over every stored-procedure outcome (SpecSearch) or every    *)
(* model completion and table length (SpecChat) within the bounds.         *)
(***************************************************************************)
NoSets == ProcReturns(<<>>, "None")
OneMatch == ProcReturns(<<DescSet(<<"A">>)>>, "None")

ConcurrentLoad ==
    {Health, List(1, 1), List(2, 1), List(1, 2), List(2, 2),
     Similar("search_products", "q2"), Similar("chat", "q1"), Similar("chat_structured", "q2")}

InitService ==
    /\ conns = <<>>
    /\ req = [r \in Requests |-> IdleRequest]

Init ==
    /\ table = Table(MaxRows)
    /\ proc = [q \in Queries |-> IF q = "q1" THEN NoSets ELSE OneMatch]
    /\ llm = {<<"n">>, <<"x">>}
    /\ dbUp \in BOOLEAN
    /\ modelUp \in BOOLEAN
    /\ clients = ConcurrentLoad
    /\ InitService

InitSearch ==
    /\ table = Table(MaxRows)
    /\ proc \in {[q \in Queries |-> IF q = "q1" THEN o ELSE OneMatch] : o \in ProcOutcomes}
    /\ llm = {<<"n">>}
    /\ dbUp = TRUE
    /\ modelUp = TRUE
    /\ clients = Inputs
    /\ InitService

InitChat ==
    /\ table \in {Table(k) : k \in 0..MaxRows}
    /\ proc = [q \in Queries |-> IF q = "q1" THEN NoSets ELSE OneMatch]
    /\ llm = Replies
    /\ dbUp = TRUE
    /\ modelUp \in BOOLEAN
    /\ clients = Inputs
    /\ InitService

Step(r) ==
    \/ receive(r)
    \/ health_check(r)
    \/ get_connection(r)
    \/ cursor_execute(r)
    \/ cursor_fetchall(r)
    \/ cursor_nextset(r)
    \/ db_error(r)
    \/ close_and_return(r)
    \/ chat_model_invoke(r)
    \/ chat_model_reply(r)

Next == \E r \in Requests : Step(r)

NextOne == Step(1)

Spec == Init /\ [][Next]_vars

SpecSearch == InitSearch /\ [][NextOne]_vars

SpecChat == InitChat /\ [][NextOne]_vars

(***************************************************************************)
(* Properties.                                                             *)
(***************************************************************************)
Done(r) == req[r].pc = "done"
Ok(r) == Done(r) /\ req[r].outcome = "ok"
ConnIds == 1..Len(conns)

\* C1: every connection a handler opened is closed exactly once by the time
\* the handler has exited, on every exit path, also when execute, fetchall or
\* nextset raised; and no connection is closed twice.
C1_ConnectionClosedOnce ==
    /\ \A r \in Requests :
         Done(r) /\ req[r].connection # 0 =>
             /\ ~conns[req[r].connection].open
             /\ conns[req[r].connection].closes = 1
    /\ \A c \in ConnIds : conns[c].closes <= 1

\* C2: search_products returns, for a query the stored procedure matches no
\* product for, a response whose results is the empty sequence.
C2_NoMatchGivesEmptyResults ==
    \A r \in Requests :
        Ok(r) /\ req[r].kind = "search_products" /\ NoMatch(proc[req[r].text]) =>
            req[r].body.results = <<>>

\* C3: chat returns products_found true exactly when the search text is
\* non-empty and not "[]", and false when the catalog has no match.
C3_ProductsFoundIffMatch ==
    \A r \in Requests :
        Ok(r) /\ req[r].kind = "chat" =>
            /\ req[r].body.products_found
                 <=> (req[r].product_results # <<>> /\ req[r].product_results # <<"[", "]">>)
            /\ NoMatch(proc[req[r].text]) => ~req[r].body.products_found

PageOf(r) == req[r].body.products
ListedOk(r, page, n) ==
    Ok(r) /\ req[r].kind = "get_products" /\ req[r].page = page /\ req[r].page_size = n

\* C4: get_products(page, page_size) with page >= 1 and page_size >= 1 returns
\* at most page_size rows, the rows of the table from offset
\* (page - 1) * page_size on; pages 1 and 2 of size n are disjoint and, one
\* after the other, are the first 2n rows, which is what page 1 of size 2n is.
C4_PaginationConsistent ==
    /\ \A r \in Requests :
         Ok(r) /\ req[r].kind = "get_products" /\ req[r].page >= 1 /\ req[r].page_size >= 1 =>
             LET first == (req[r].page - 1) * req[r].page_size
                 rest == IF Len(table) > first THEN Len(table) - first ELSE 0
             IN  /\ Len(PageOf(r)) <= req[r].page_size
                 /\ Len(PageOf(r)) = Min(req[r].page_size, rest)
                 /\ \A i \in 1..Len(PageOf(r)) :
                        PageOf(r)[i] = Zip(ProductColumns, table[first + i])
    /\ \A r1, r2 \in Requests : \A n \in 1..(MaxPageSize + 1) :
         ListedOk(r1, 1, n) /\ ListedOk(r2, 2, n) =>
             /\ PageOf(r1) \o PageOf(r2)
                  = Dicts(ProductColumns, SubSeq(table, 1, Min(2 * n, Len(table))))
             /\ \A i \in 1..Len(PageOf(r1)), j \in 1..Len(PageOf(r2)) :
                    PageOf(r1)[i].id < PageOf(r2)[j].id
             /\ \A r3 \in Requests :
                    ListedOk(r3, 1, 2 * n) => PageOf(r3) = PageOf(r1) \o PageOf(r2)

C4_TwoPagesListed ==
    \E r1, r2 \in Requests :
        /\ ListedOk(r1, 1, 1) /\ ListedOk(r2, 2, 1)
        /\ PageOf(r1) # <<>> /\ PageOf(r2) # <<>>

IsJsonText(t) == JsonLoads(t).err = "none"

\* C5: chat_structured never fails because of the content of the model's
\* reply: a reply that is JSON gives the parsed value, any other reply gives
\* {raw_response: reply}.
C5_StructuredNeverFails ==
    \A r \in Requests :
        Done(r) /\ req[r].kind = "chat_structured" /\ req[r].response.received =>
            /\ req[r].outcome = "ok"
            /\ req[r].body = IF IsJsonText(req[r].response.content)
                             THEN [json |-> JsonLoads(req[r].response.content).value]
                             ELSE [raw_response |-> req[r].response.content]

HealthPayload == [status |-> "healthy", service |-> "SQL AI API"]

C6HealthDone ==
    \A r \in Requests :
        Done(r) /\ req[r].kind = "health" =>
            /\ req[r].outcome = "ok" /\ req[r].body = HealthPayload
            /\ req[r].connection = 0 /\ req[r].connects = 0
            /\ req[r].executes = 0 /\ req[r].invokes = 0

C6HealthFrame ==
    \A r \in Requests :
        req[r].pc = "health_check" /\ req'[r].pc = "done" =>
            /\ conns' = conns
            /\ Environment' = Environment
            /\ \A o \in Requests \ {r} : req'[o] = req[o]

\* C6: the health endpoint returns {status: healthy, service: SQL AI API}
\* whether or not the database and the model can be reached; handling it
\* opens no connection, calls no model and changes nothing else.
C6_HealthAlwaysHealthy == []C6HealthDone /\ [][C6HealthFrame]_vars

C6_HealthyWhileUnreachable ==
    \E r \in Requests : Ok(r) /\ req[r].kind = "health" /\ ~dbUp /\ ~modelUp

OwnedBy(r) == {c \in ConnIds : conns[c].owner = r}

C7AtMostOnce ==
    \A r \in Requests :
        /\ req[r].connects <= 1 /\ req[r].executes <= 1 /\ req[r].invokes <= 1
        /\ Cardinality(OwnedBy(r)) <= 1
        /\ req[r].error # "none" => Done(r) /\ req[r].outcome = "error"
        /\ ~dbUp /\ req[r].connects = 1 => Done(r) /\ req[r].outcome = "error"
        /\ ~modelUp /\ req[r].invokes = 1 /\ Done(r) => req[r].outcome = "error"

C7FailedStaysFailed ==
    \A r \in Requests :
        req[r].outcome = "error" =>
            /\ req'[r] = req[r]
            /\ \A c \in OwnedBy(r) : c \in 1..Len(conns') /\ conns'[c] = conns[c]

\* C7: no retries: a request opens at most one connection, executes at most
\* one statement batch and calls the model at most once; a failed connect,
\* query or model call ends the request in an error and the request makes no
\* further call.
C7_NoRetries == []C7AtMostOnce /\ [][C7FailedStaysFailed]_vars

C7_QueryFailedOnce ==
    \E r \in Requests :
        /\ Done(r) /\ req[r].error = "QueryError" /\ req[r].visited # <<>>
        /\ req[r].connects = 1 /\ req[r].executes = 1

LoopFinished(r) ==
    /\ req[r].kind \in SimilarKinds
    /\ \/ req[r].pc \in {"close", "invoke", "await"}
       \/ Ok(r)
       \/ Done(r) /\ req[r].invokes = 1

RowsOfDescribed(sets) ==
    Flatten([i \in 1..Len(sets) |-> IF sets[i].columns # <<>> THEN sets[i].rows ELSE <<>>])

MappingsOfDescribed(sets) ==
    Flatten([i \in 1..Len(sets) |->
                IF sets[i].columns # <<>> THEN Dicts(sets[i].columns, sets[i].rows) ELSE <<>>])

\* C8: the fetch loop of the similarity call visits every result set of the
\* batch once, in emission order, and stops when none remain; the result is
\* the concatenation, in that order, of the rows of the sets that have a
\* column descriptor, and sets without one contribute no rows.
C8_FetchLoopConcatenates ==
    \A r \in Requests :
        /\ req[r].kind \in SimilarKinds =>
             /\ \A i \in 1..Len(req[r].visited) : req[r].visited[i] = i
             /\ Len(req[r].visited) <= Len(req[r].cursor.sets)
        /\ LoopFinished(r) =>
             /\ req[r].cursor.sets = proc[req[r].text].sets \o <<ErrorSet(proc[req[r].text].error)>>
             /\ Len(req[r].visited) = Len(req[r].cursor.sets)
             /\ req[r].kind = "search_products" =>
                    req[r].results = MappingsOfDescribed(req[r].cursor.sets)
             /\ req[r].kind \in ChatKinds =>
                    req[r].results = RowsOfDescribed(req[r].cursor.sets)
        /\ Ok(r) /\ req[r].kind = "search_products" => req[r].body.results = req[r].results

C8_ThreeSetsRead ==
    \E r \in Requests :
        /\ Ok(r) /\ req[r].kind = "search_products"
        /\ Len(req[r].cursor.sets) = 3
        /\ req[r].cursor.sets[2].columns = <<>>
        /\ req[r].cursor.sets[1].rows # <<>>
        /\ Len(req[r].body.results) = 3

Embeds(content, text) ==
    \E i \in 1..(Len(content) - Len(text) + 1) : SubSeq(content, i, i + Len(text) - 1) = text

SearchFailed(r) ==
    Done(r) /\ req[r].error \in {"ConnectionError", "QueryError"}

\* C9: in chat and chat_structured the search has run to completion and its
\* connection is closed before the model is invoked; the model is invoked
\* once, with [system instruction embedding the search text, user message];
\* a failed search means no model call; no connection of the request is open
\* while the model call is in flight.
C9_SearchThenModel ==
    \A r \in Requests :
        req[r].kind \in ChatKinds =>
            /\ req[r].pc \in {"invoke", "await"} \/ req[r].invokes > 0 =>
                 /\ req[r].connection # 0
                 /\ ~conns[req[r].connection].open
                 /\ Len(req[r].visited) = Len(req[r].cursor.sets)
                 /\ req[r].product_results = Str(req[r].results)
            /\ req[r].invokes > 0 =>
                 /\ req[r].invokes = 1
                 /\ Len(req[r].messages) = 2
                 /\ req[r].messages[1].role = "system"
                 /\ Embeds(req[r].messages[1].content, req[r].product_results)
                 /\ req[r].messages[2] = [role |-> "user", content |-> <<req[r].text>>]
            /\ req[r].invokes = 0 => req[r].messages = <<>> /\ ~req[r].response.received
            /\ SearchFailed(r) => req[r].invokes = 0
            /\ req[r].pc = "await" => \A c \in OwnedBy(r) : ~conns[c].open

C9_ModelCallInFlight ==
    \E r, o \in Requests :
        /\ req[r].kind = "chat_structured" /\ req[r].pc = "await"
        /\ req[o].kind = "chat" /\ SearchFailed(o)

OwnStatement(r) ==
    IF req[r].kind = "get_products"
    THEN <<[columns |-> ProductColumns,
            rows |-> SubSeq(table, (req[r].page - 1) * req[r].page_size + 1,
                            Min(req[r].page * req[r].page_size, Len(table)))]>>
    ELSE proc[req[r].text].sets \o <<ErrorSet(proc[req[r].text].error)>>

SameInput(r1, r2) ==
    /\ req[r1].kind = req[r2].kind
    /\ req[r1].page = req[r2].page /\ req[r1].page_size = req[r2].page_size
    /\ req[r1].text = req[r2].text
    /\ req[r1].response = req[r2].response

\* C10: under any interleaving every connection is used only by the request
\* that opened it, no connection serves two requests, every request reads
\* the result sets of its own statement, and two requests with the same
\* input and the same external replies return the same result.
C10_RequestsIsolated ==
    /\ \A c \in ConnIds :
         /\ conns[c].users \subseteq {conns[c].owner}
         /\ req[conns[c].owner].connection = c
    /\ \A r \in Requests :
         /\ req[r].connection # 0 => conns[req[r].connection].owner = r
         /\ req[r].cursor.sets # <<>> => req[r].cursor.sets = OwnStatement(r)
    /\ \A r1, r2 \in Requests :
         /\ r1 # r2 /\ req[r1].connection # 0 => req[r1].connection # req[r2].connection
         /\ Ok(r1) /\ Ok(r2) /\ SameInput(r1, r2) => req[r1].body = req[r2].body

C10_TwoConnectionsOpen ==
    \E r1, r2 \in Requests :
        /\ r1 # r2
        /\ req[r1].pc = "nextset" /\ req[r2].pc = "fetch"
        /\ req[r1].text # req[r2].text
        /\ conns[req[r1].connection].open /\ conns[req[r2].connection].open

====
